---- MODULE Spec2Model ----
(***************************************************************************)
(* Model of the deal funnel simulation of src/src/02_build_deals.py:       *)
(* the probability model, the duration model, the leakage/outcome state    *)
(* machine and the main loop over the company list; and of the two steps   *)
(* that read its output, src/src/03_build_billing.py and                   *)
(* src/src/04_build_unified.py.                                            *)
(*                                                                         *)
(* Floating point values are modelled as exact rationals <<n, d>> in       *)
(* lowest terms with d > 0; the IEEE not-a-number is <<0, 0>>.  Dates are  *)
(* whole days counted from an arbitrary day 0; NaT is a negative day.      *)
(***************************************************************************)
EXTENDS Integers, Sequences, FiniteSets, TLC

(***************************************************************************)
(* Rational arithmetic with NaN, as the float operations the code uses.    *)
(***************************************************************************)
RECURSIVE GCD(_, _)
GCD(a, b) == IF b = 0 THEN a ELSE GCD(b, a % b)

Abs(n) == IF n < 0 THEN 0 - n ELSE n

NaN == <<0, 0>>

IsNaN(x) == x[2] = 0

R(n, d) == LET g == GCD(Abs(n), d) IN <<n \div g, d \div g>>

RMul(x, y) == IF IsNaN(x) \/ IsNaN(y) THEN NaN ELSE R(x[1] * y[1], x[2] * y[2])

RAdd(x, y) ==
    IF IsNaN(x) \/ IsNaN(y) THEN NaN ELSE R(x[1] * y[2] + y[1] * x[2], x[2] * y[2])

\* every comparison with NaN is false
RLt(x, y) == ~IsNaN(x) /\ ~IsNaN(y) /\ x[1] * y[2] < y[1] * x[2]

RLe(x, y) == ~IsNaN(x) /\ ~IsNaN(y) /\ x[1] * y[2] <= y[1] * x[2]

RGe(x, y) == RLe(y, x)

\* Python max(a, b): b when b > a, else a
PyMax(a, b) == IF RLt(a, b) THEN b ELSE a

\* Python min(a, b): b when b < a, else a
PyMin(a, b) == IF RLt(b, a) THEN b ELSE a

\* Python int(x) of a float: truncation toward zero
PyInt(x) == IF x[1] >= 0 THEN x[1] \div x[2] ELSE 0 - ((0 - x[1]) \div x[2])

IntMax(a, b) == IF b > a THEN b ELSE a

One == R(1, 1)

Zero == R(0, 1)

Pct(n) == R(n, 100)

(***************************************************************************)
(* Configuration constants (percent where the source has a fraction).      *)
(***************************************************************************)
RNG_SEED == 43

SALES_OWNERS ==
    << "Marissa", "Maria", "Henry", "Isabella", "Jack", "Katherine", "Luke", "Mary",
       "Noah", "Olivia", "Peter", "Quinn", "Rachel", "Samuel", "Taylor", "William",
       "Zachary" >>

Bands == {"2-10", "11-50", "51-200", "201-500", "501-1000", "1001-5000",
          "5001-10000", "10001+"}

DURATION_BY_BAND ==
    [b \in Bands |->
        CASE b = "2-10" -> Pct(90) [] b = "11-50" -> Pct(100) [] b = "51-200" -> Pct(110)
          [] b = "201-500" -> Pct(118) [] b = "501-1000" -> Pct(122)
          [] b = "1001-5000" -> Pct(130) [] b = "5001-10000" -> Pct(138)
          [] b = "10001+" -> Pct(145)]

WIN_MULT_BY_BAND ==
    [b \in Bands |->
        CASE b = "2-10" -> Pct(100) [] b = "11-50" -> Pct(100) [] b = "51-200" -> Pct(100)
          [] b = "201-500" -> Pct(97) [] b = "501-1000" -> Pct(95)
          [] b = "1001-5000" -> Pct(92) [] b = "5001-10000" -> Pct(90)
          [] b = "10001+" -> Pct(88)]

ICP_CREATE_MULT == 30
ICP_WIN_MULT == 40
X12_CLR_MULT == 120
FHIR_MULT == 110
X12_CLR_WIN_MULT == 125
FHIR_WIN_MULT == 110
PREV_CUSTOMER_CREATE_MIN == 85
PREV_CUSTOMER_WIN_MIN == 70
PREV_CUSTOMER_DURATION_MULT == 85
EVAL_MULT_X12_CLR == 110
NEGO_MULT_X12_CLR == 115
NEGO_MULT_FHIR == 105

\* the clamp intervals of the two probabilities, in percent
CREATE_CLAMP_MIN == 3
CREATE_CLAMP_MAX == 97
WIN_CLAMP_MIN == 2
WIN_CLAMP_MAX == 98

(***************************************************************************)
(* Cell values of a company row.  A cell is Missing when the column is     *)
(* absent (row.get returns its default) and None/NaN when it is empty.     *)
(***************************************************************************)
Missing == <<>>

\* a cell that holds a text that is no number
Malformed == << "n/a" >>

\* float(x) raises ValueError on a text that is no number
FloatRaises(x) == x = Malformed

\* float(x or 0.0): a falsy x (None, 0.0) becomes 0.0; NaN is truthy and stays
FloatOrZero(x) == IF x = Missing \/ x = Zero THEN Zero ELSE x

\* bool(row.get(flag, False)) of a flag cell: NaN is truthy
PyBool(cell) == cell \in {"True", "NaN"}

get_band_multiplier(band_label, multiplier_dict) ==
    IF band_label \in DOMAIN multiplier_dict THEN multiplier_dict[band_label] ELSE One

(***************************************************************************)
(* parse_health_tech: case-insensitive substring search.  A text is a      *)
(* sequence of one-character strings.                                      *)
(***************************************************************************)
LowerChar(c) ==
    CASE c = "A" -> "a" [] c = "C" -> "c" [] c = "F" -> "f" [] c = "H" -> "h"
      [] c = "I" -> "i" [] c = "L" -> "l" [] c = "M" -> "m" [] c = "O" -> "o"
      [] c = "P" -> "p" [] c = "R" -> "r" [] c = "T" -> "t" [] c = "U" -> "u"
      [] c = "X" -> "x" [] OTHER -> c

Lower(s) == [i \in 1..Len(s) |-> LowerChar(s[i])]

\* sub in s
Contains(sub, s) ==
    \E i \in 0..(Len(s) - Len(sub)) : \A j \in 1..Len(sub) : s[i + j] = sub[j]

X12Codes ==
    { <<"x", "1", "2">>, <<"2", "7", "0">>, <<"2", "7", "1">>, <<"2", "7", "6">>,
      <<"2", "7", "7">>, <<"2", "7", "8">>, <<"8", "3", "5">>, <<"8", "3", "7">> }

FhirTerms == { <<"f", "h", "i", "r">>, <<"h", "l", "7">> }

ClearinghouseTerms ==
    { <<"c", "l", "e", "a", "r", "i", "n", "g", "h", "o", "u", "s", "e">>,
      <<"a", "v", "a", "i", "l", "i", "t", "y">>,
      <<"e", "d", "i", "f", "e", "c", "s">>,
      <<"c", "h", "a", "n", "g", "e", " ", "h", "e", "a", "l", "t", "h", "c", "a", "r", "e">>,
      <<"o", "p", "t", "u", "m">> }

\* a text cell: kind is "str", "none" (None) or "nan" (an empty csv cell)
Text(chars) == [kind |-> "str", text |-> chars]

NoneCell == [kind |-> "none", text |-> <<>>]

NaNCell == [kind |-> "nan", text |-> <<>>]

\* str(x or ''): None and '' give '', NaN is truthy and gives 'nan'
StrOrEmpty(cell) ==
    IF cell.kind = "none" THEN <<>>
    ELSE IF cell.kind = "nan" THEN <<"n", "a", "n">>
    ELSE cell.text

parse_health_tech(health_tech_str) ==
    LET tech_str == Lower(StrOrEmpty(health_tech_str))
    IN  [ has_x12 |-> \E code \in X12Codes : Contains(code, tech_str),
          has_fhir |-> \E term \in FhirTerms : Contains(term, tech_str),
          has_clearinghouse |-> \E term \in ClearinghouseTerms : Contains(term, tech_str) ]

(***************************************************************************)
(* Probability model.                                                      *)
(***************************************************************************)
\* min and max taken the other way round: equal on numbers, not on NaN
clamp_value_first(value, min_val, max_val) == PyMin(PyMax(value, min_val), max_val)

clamp(value, min_val, max_val) == PyMax(min_val, PyMin(max_val, value))

\* min where the code has max: a cap instead of a floor
prev_customer_cap(probability, prev_customer, minimum) ==
    IF prev_customer THEN PyMin(probability, minimum) ELSE probability

\* lines 105-106 and 136-137: a prior customer never shows less than the minimum
prev_customer_floor(probability, prev_customer, minimum) ==
    IF prev_customer THEN PyMax(probability, minimum) ELSE probability

\* and where the code has or: the larger boost needs both signals
rail_boost_both(has_x12, has_fhir, has_clearinghouse, primary, secondary) ==
    IF has_x12 /\ has_clearinghouse THEN primary
    ELSE IF has_fhir THEN secondary
    ELSE One

\* lines 94-97 and 122-125: the factor of the health tech boost
rail_boost(has_x12, has_fhir, has_clearinghouse, primary, secondary) ==
    IF has_x12 \/ has_clearinghouse THEN primary
    ELSE IF has_fhir THEN secondary
    ELSE One

\* lines 87-108, after the baseline has been drawn
create_probability_of(baseline, icp, icp_confidence, prev_customer, has_x12, has_fhir, has_clearinghouse, stack_confidence) ==
    LET m1 == IF icp
              THEN RMul(One, RAdd(One, RMul(Pct(ICP_CREATE_MULT), FloatOrZero(icp_confidence))))
              ELSE One
        m2 == RMul(m1, rail_boost(has_x12, has_fhir, has_clearinghouse,
                                  Pct(X12_CLR_MULT), Pct(FHIR_MULT)))
        m3 == RMul(m2, RAdd(Pct(60), RMul(Pct(40), FloatOrZero(stack_confidence))))
        probability == RMul(baseline, m3)
        floored == prev_customer_floor(probability, prev_customer,
                                       Pct(PREV_CUSTOMER_CREATE_MIN))
    IN  clamp(floored, Pct(CREATE_CLAMP_MIN), Pct(CREATE_CLAMP_MAX))

\* lines 115-139, after the baseline has been drawn
win_probability_of(baseline, icp, icp_confidence, prev_customer, has_x12, has_fhir, has_clearinghouse, stack_confidence, band_label) ==
    LET m1 == IF icp
              THEN RMul(One, RAdd(One, RMul(Pct(ICP_WIN_MULT), FloatOrZero(icp_confidence))))
              ELSE One
        m2 == RMul(m1, rail_boost(has_x12, has_fhir, has_clearinghouse,
                                  Pct(X12_CLR_WIN_MULT), Pct(FHIR_WIN_MULT)))
        m3 == RMul(m2, get_band_multiplier(band_label, WIN_MULT_BY_BAND))
        m4 == RMul(m3, RAdd(Pct(60), RMul(Pct(40), FloatOrZero(stack_confidence))))
        probability == RMul(baseline, m4)
        floored == prev_customer_floor(probability, prev_customer,
                                       Pct(PREV_CUSTOMER_WIN_MIN))
    IN  clamp(floored, Pct(WIN_CLAMP_MIN), Pct(WIN_CLAMP_MAX))

(***************************************************************************)
(* Duration model and leakage rates.                                       *)
(***************************************************************************)
\* lines 144-164; the three jitters are the values add_jitter drew
calculate_duration_scales(band_label, prev_customer, has_x12_or_clearinghouse, has_fhir, jitter_base, jitter_eval, jitter_nego) ==
    LET band_scale == get_band_multiplier(band_label, DURATION_BY_BAND)
        base_scale == IF prev_customer
                      THEN RMul(band_scale, Pct(PREV_CUSTOMER_DURATION_MULT))
                      ELSE band_scale
        eval_mult == IF has_x12_or_clearinghouse \/ has_fhir
                     THEN Pct(EVAL_MULT_X12_CLR) ELSE One
        nego_mult == IF has_x12_or_clearinghouse THEN Pct(NEGO_MULT_X12_CLR)
                     ELSE IF has_fhir THEN Pct(NEGO_MULT_FHIR)
                     ELSE One
    IN  [ base_scale |-> RMul(base_scale, jitter_base),
          eval_mult |-> RMul(eval_mult, jitter_eval),
          nego_mult |-> RMul(nego_mult, jitter_nego) ]

\* lines 173-183; the three bases are the values rng.beta drew
calculate_leakage_rates(icp, prev_customer, has_x12_or_clearinghouse, base_eval, base_prop, base_neg) ==
    LET a1 == IF icp THEN RMul(One, Pct(85)) ELSE One
        a2 == IF prev_customer THEN RMul(a1, Pct(70)) ELSE a1
        adjustment == IF has_x12_or_clearinghouse THEN RMul(a2, Pct(90)) ELSE a2
    IN  [ eval |-> clamp(RMul(base_eval, adjustment), Pct(2), Pct(25)),
          prop |-> clamp(RMul(base_prop, adjustment), Pct(3), Pct(30)),
          neg |-> clamp(RMul(base_neg, adjustment), Pct(3), Pct(30)) ]

\* max(1, int(x)): a stage never lasts less than a day
stage_days(x) == IntMax(1, PyInt(x))

\* high taken as inclusive
integers_inclusive(low, high) == low..high

\* rng.integers(low, high): high is exclusive
integers(low, high) == low..(high - 1)

(***************************************************************************)
(* The values the model lets each random draw take.                        *)
(***************************************************************************)
\* rng.beta(1.6, 3.0) and rng.beta(1.5, 4.0): a value in (0, 1)
BetaVals == << R(1, 25), R(19, 20) >>

\* exp(rng.normal(0, sigma)): a positive factor around 1
JitterVals == << R(4, 5), R(5, 4) >>

\* rng.random(): a value in [0, 1)
RandomVals == << Zero, R(1, 10), R(99, 100) >>

\* rng.normal(10, 7): days between company creation and deal creation
NormalVals == << R(0 - 7, 2), R(21, 2) >>

\* rng.lognormal(mean, sigma): a positive number of days
LogNormalVals == << R(1, 10), R(9, 2) >>

\* rng.beta(2.5, 20.0) and rng.beta(2.5, 18.0): the leakage baselines
LeakBetaVals == << R(1, 100), R(3, 20) >>

\* how many owners of the roster rng.choice is let to pick
MaxOwners == 2

Vals(tab) == {tab[i] : i \in 1..Len(tab)}

OwnerVals == {SALES_OWNERS[i] : i \in 1..MaxOwners}

\* identifiers uuid4 may return
Uuids == {"uuid-1", "uuid-2"}

NaT == -1

(***************************************************************************)
(* Company rows.  An account_id of "Missing" is a row without the column,  *)
(* "NaN" a row whose cell is empty.                                        *)
(***************************************************************************)
Row(id, created, icp, icp_conf, prev, stack_conf, band, tech) ==
    [ account_id |-> id, created_date |-> created, icp |-> icp,
      icp_confidence |-> icp_conf, is_prev_stedi_customer |-> prev,
      tech_stack_confidence |-> stack_conf, employee_band |-> band,
      health_tech |-> tech ]

CompanyRows ==
    { Row("a1", 0, "False", Zero, "False", Zero, "11-50", Text(<<>>)),
      Row("a2", 5, "True", One, "True", R(1, 2), "10001+",
          Text(<<"X", "1", "2", ",", " ", "F", "H", "I", "R">>)),
      Row("a3", 0, "True", R(1, 2), "False", One, "201-500", Text(<<"H", "L", "7">>)),
      Row("a4", 5, "NaN", NaN, "Missing", Missing, "unknown", NaNCell),
      Row("Missing", 0, "True", R(1, 2), "False", One, "201-500", Text(<<"H", "L", "7">>)),
      Row("NaN", 0, "False", Zero, "False", Zero, "11-50", Text(<<>>)),
      Row("a7", 0, "False", Malformed, "False", Zero, "11-50", Text(<<>>)) }

\* company_row['account_id'] raises KeyError when the row has no such column
KeyRaises(row) == row.account_id = "Missing"

(***************************************************************************)
(* State.                                                                  *)
(***************************************************************************)
VARIABLES
    pc,               \* position in process_company_deal / main
    company_row,      \* the row process_company_deal was called with
    sig,              \* the attributes extracted from the row (lines 188-196)
    baseline,         \* the baselines drawn by the two probability functions
    create_prob, win_prob,
    deal_id, owner, created_date,
    base_scale,
    discovery_date, evaluation_date, proposal_date, negotiation_date,
    leak,             \* leak_eval_rate, leak_prop_rate, leak_neg_rate
    closed_won_date, closed_lost_date,
    result,           \* <<>> for None, <<deal>> for a deal record
    draws,            \* the draws this call took from rng, in order
    trials,           \* the Bernoulli trials this call ran, in order
    rng,              \* state of the shared generator
    seed,             \* the seed the generator is created from
    companies,        \* the company list main() iterates
    run,              \* which run of main() is executing
    idx,              \* index of the row the loop of main() is at
    deals_data,       \* the deals collected by the running main()
    outputs,          \* the deal lists written by the finished runs
    consumed,         \* per processed company of this run, the draws it took
    history,          \* per run, per processed company: its id, whether the create
                      \* trial succeeded, and what the call returned
    billing,          \* the rows of billing.csv
    unified           \* the rows of unified.csv

locals == << sig, baseline, create_prob, win_prob, deal_id, owner, created_date,
             base_scale, discovery_date, evaluation_date, proposal_date,
             negotiation_date, leak, closed_won_date, closed_lost_date >>

mainvars == << seed, companies, run, idx, deals_data, outputs, consumed, history,
              billing, unified >>

vars == << pc, company_row, locals, result, draws, trials, rng, mainvars >>

NoSig ==
    [ icp |-> FALSE, icp_confidence |-> Zero, prev_customer |-> FALSE,
      stack_confidence |-> Zero, band_label |-> "", has_x12 |-> FALSE,
      has_fhir |-> FALSE, has_clearinghouse |-> FALSE ]

NoLeak == [eval |-> Zero, prop |-> Zero, neg |-> Zero]

NoBaseline == [create |-> Zero, win |-> Zero]

NoRow == Row("", 0, "False", Zero, "False", Zero, "", NoneCell)

\* a fresh call frame: no local is bound yet
FreshLocals ==
    /\ baseline = NoBaseline
    /\ create_prob = Zero /\ win_prob = Zero
    /\ deal_id = "" /\ owner = "" /\ created_date = NaT
    /\ base_scale = One
    /\ discovery_date = NaT /\ evaluation_date = NaT
    /\ proposal_date = NaT /\ negotiation_date = NaT
    /\ leak = NoLeak
    /\ closed_won_date = NaT /\ closed_lost_date = NaT

\* row.get(column, default) of a confidence cell, then float(x or 0.0)
ConfidenceOf(cell) == FloatOrZero(cell)

\* lines 188-196
Extract(row) ==
    LET tech == parse_health_tech(row.health_tech)
    IN  [ icp |-> PyBool(row.icp),
          icp_confidence |-> ConfidenceOf(row.icp_confidence),
          prev_customer |-> PyBool(row.is_prev_stedi_customer),
          stack_confidence |-> ConfidenceOf(row.tech_stack_confidence),
          band_label |-> row.employee_band,
          has_x12 |-> tech.has_x12, has_fhir |-> tech.has_fhir,
          has_clearinghouse |-> tech.has_clearinghouse ]

has_x12_or_clearinghouse == sig.has_x12 \/ sig.has_clearinghouse

(***************************************************************************)
(* process_company_deal, one step per group of statements.  Every step is  *)
(* given the values its draws returned; the specifications below choose    *)
(* how these values arise.                                                 *)
(***************************************************************************)
Took(kinds) == draws' = draws \o kinds

\* the frame of the call is gone once it returns
PopFrame ==
    /\ sig' = NoSig
    /\ baseline' = NoBaseline
    /\ create_prob' = Zero /\ win_prob' = Zero
    /\ deal_id' = "" /\ owner' = "" /\ created_date' = NaT
    /\ base_scale' = One
    /\ discovery_date' = NaT /\ evaluation_date' = NaT
    /\ proposal_date' = NaT /\ negotiation_date' = NaT
    /\ leak' = NoLeak
    /\ closed_won_date' = NaT /\ closed_lost_date' = NaT

\* lines 265-276: the record returned, from the final values of the locals
DealRecord(evaluation, proposal, negotiation, closed_won, closed_lost) ==
    [ deal_id |-> deal_id, account_id |-> company_row.account_id, owner |-> owner,
      created_date |-> created_date,
      stage_date_discovery |-> discovery_date,
      stage_date_evaluation |-> evaluation,
      stage_date_proposal |-> proposal,
      stage_date_negotiation |-> negotiation,
      stage_date_closed_won |-> closed_won,
      stage_date_closed_lost |-> closed_lost ]

\* line 267 raises when the row has no account_id column
ReturnDeal(record) ==
    /\ IF KeyRaises(company_row)
       THEN /\ result' = <<>>
            /\ pc' = "raised"
       ELSE /\ result' = <<record>>
            /\ pc' = "done"
    /\ PopFrame

\* lines 185-196: the call binds the row and extracts the attributes; float() of
\* lines 189 and 191 raises on a malformed confidence
Begin(row) ==
    /\ company_row' = row
    /\ result' = <<>>
    /\ draws' = <<>>
    /\ trials' = <<>>
    /\ IF FloatRaises(row.icp_confidence) \/ FloatRaises(row.tech_stack_confidence)
       THEN /\ sig' = NoSig
            /\ pc' = "raised"
       ELSE /\ sig' = Extract(row)
            /\ pc' = "create_prob"
    /\ UNCHANGED << baseline, create_prob, win_prob, deal_id, owner, created_date,
                    base_scale, discovery_date, evaluation_date, proposal_date,
                    negotiation_date, leak, closed_won_date, closed_lost_date >>

\* lines 82-108
calculate_create_probability(beta, jitter, icp, icp_confidence, prev_customer, has_x12, has_fhir, has_clearinghouse, stack_confidence) ==
    create_probability_of(RMul(beta, jitter), icp, icp_confidence, prev_customer,
                          has_x12, has_fhir, has_clearinghouse, stack_confidence)

\* lines 110-139
calculate_win_probability(beta, jitter, icp, icp_confidence, prev_customer, has_x12, has_fhir, has_clearinghouse, stack_confidence, band_label) ==
    win_probability_of(RMul(beta, jitter), icp, icp_confidence, prev_customer, has_x12,
                       has_fhir, has_clearinghouse, stack_confidence, band_label)

\* lines 199-200
DoCreateProbability(beta, jitter) ==
    /\ pc = "create_prob"
    /\ create_prob' = calculate_create_probability(beta, jitter, sig.icp,
                          sig.icp_confidence, sig.prev_customer, sig.has_x12,
                          sig.has_fhir, sig.has_clearinghouse, sig.stack_confidence)
    /\ Took(<<"create_prob", "create_prob">>)
    /\ pc' = "win_prob"
    /\ UNCHANGED << company_row, sig, baseline, win_prob, deal_id, owner, created_date,
                    base_scale, discovery_date, evaluation_date, proposal_date,
                    negotiation_date, leak, closed_won_date, closed_lost_date, result,
                    trials >>

\* the won/lost draw taken up front, right after the win probability
DoWinProbabilityEagerOutcome(beta, jitter) ==
    /\ pc = "win_prob"
    /\ win_prob' = calculate_win_probability(beta, jitter, sig.icp,
                       sig.icp_confidence, sig.prev_customer, sig.has_x12,
                       sig.has_fhir, sig.has_clearinghouse, sig.stack_confidence,
                       sig.band_label)
    /\ Took(<<"win_prob", "win_prob", "outcome_trial">>)
    /\ pc' = "create_trial"
    /\ UNCHANGED << company_row, sig, baseline, create_prob, deal_id, owner,
                    created_date, base_scale, discovery_date, evaluation_date,
                    proposal_date, negotiation_date, leak, closed_won_date,
                    closed_lost_date, result, trials >>

\* lines 201-203
DoWinProbability(beta, jitter) ==
    /\ pc = "win_prob"
    /\ win_prob' = calculate_win_probability(beta, jitter, sig.icp,
                       sig.icp_confidence, sig.prev_customer, sig.has_x12,
                       sig.has_fhir, sig.has_clearinghouse, sig.stack_confidence,
                       sig.band_label)
    /\ Took(<<"win_prob", "win_prob">>)
    /\ pc' = "create_trial"
    /\ UNCHANGED << company_row, sig, baseline, create_prob, deal_id, owner,
                    created_date, base_scale, discovery_date, evaluation_date,
                    proposal_date, negotiation_date, leak, closed_won_date,
                    closed_lost_date, result, trials >>

\* lines 205-207: rng.random() >= create_prob returns None
DoCreateTrial(u) ==
    /\ pc = "create_trial"
    /\ Took(<<"create_trial">>)
    /\ trials' = Append(trials, <<"create", ~RGe(u, create_prob)>>)
    /\ IF RGe(u, create_prob)
       THEN /\ result' = <<>>
            /\ pc' = "done"
            /\ PopFrame
       ELSE /\ pc' = "generate"
            /\ UNCHANGED << result, locals >>
    /\ UNCHANGED company_row

\* line 214 without line 215: the offset is not floored at the company's date
deal_created_date_unfloored(company_created, normal) == company_created + PyInt(normal)

\* lines 214-215: normal is what rng.normal(10, 7) returned
deal_created_date(company_created, normal) ==
    IntMax(company_created + PyInt(normal), company_created)

\* lines 210-215; uuid is what uuid4 returned, it is not drawn from rng
DoGenerateDeal(uuid, chosen, normal) ==
    /\ pc = "generate"
    /\ deal_id' = uuid
    /\ owner' = chosen
    /\ created_date' = deal_created_date(company_row.created_date, normal)
    /\ Took(<<"owner", "created_date">>)
    /\ pc' = "durations"
    /\ UNCHANGED << company_row, sig, baseline, create_prob, win_prob, base_scale,
                    discovery_date, evaluation_date, proposal_date, negotiation_date,
                    leak, closed_won_date, closed_lost_date, result, trials >>

\* lines 218-230: jit are the three jitters, ln the four lognormal draws
DoStageDates(jit, ln) ==
    /\ pc = "durations"
    /\ LET sc == calculate_duration_scales(sig.band_label, sig.prev_customer,
                     has_x12_or_clearinghouse, sig.has_fhir, jit[1], jit[2], jit[3])
           discovery_days == stage_days(RMul(ln[1], sc.base_scale))
           evaluation_days == stage_days(RMul(RMul(ln[2], sc.base_scale), sc.eval_mult))
           proposal_days == stage_days(RMul(ln[3], sc.base_scale))
           negotiation_days == stage_days(RMul(RMul(ln[4], sc.base_scale), sc.nego_mult))
       IN  /\ base_scale' = sc.base_scale
           /\ discovery_date' = created_date + discovery_days
           /\ evaluation_date' = created_date + discovery_days + evaluation_days
           /\ proposal_date' =
                  created_date + discovery_days + evaluation_days + proposal_days
           /\ negotiation_date' =
                  created_date + discovery_days + evaluation_days + proposal_days
                      + negotiation_days
    /\ Took(<<"duration_scale", "duration_scale", "duration_scale",
              "stage_days", "stage_days", "stage_days", "stage_days">>)
    /\ pc' = "leak_rates"
    /\ UNCHANGED << company_row, sig, baseline, create_prob, win_prob, deal_id, owner,
                    created_date, leak, closed_won_date, closed_lost_date, result,
                    trials >>

\* lines 233-237: b are the three beta draws
DoLeakageRates(b) ==
    /\ pc = "leak_rates"
    /\ leak' = calculate_leakage_rates(sig.icp, sig.prev_customer,
                   has_x12_or_clearinghouse, b[1], b[2], b[3])
    /\ closed_won_date' = NaT
    /\ closed_lost_date' = NaT
    /\ Took(<<"leak_rate", "leak_rate", "leak_rate">>)
    /\ pc' = "leak_eval"
    /\ UNCHANGED << company_row, sig, baseline, create_prob, win_prob, deal_id, owner,
                    created_date, base_scale, discovery_date, evaluation_date,
                    proposal_date, negotiation_date, result, trials >>

\* a leakage trial that did not fire: on to the next checkpoint
NotLeaked(next_pc) ==
    /\ Took(<<"leak_trial">>)
    /\ pc' = next_pc
    /\ UNCHANGED << result, locals >>

\* line 243 clearing the evaluation and proposal dates only
leaked_at_evaluation_gap(offset) ==
    DealRecord(NaT, NaT, negotiation_date, closed_won_date, discovery_date + offset)

\* lines 242-243
leaked_at_evaluation(offset) ==
    DealRecord(NaT, NaT, NaT, closed_won_date, discovery_date + offset)

\* lines 246-247
leaked_at_proposal(offset) ==
    DealRecord(evaluation_date, NaT, NaT, closed_won_date, evaluation_date + offset)

\* line 251 without line 250: the lost date is never set
leaked_at_negotiation_open(offset) ==
    DealRecord(evaluation_date, proposal_date, NaT, closed_won_date, closed_lost_date)

\* lines 250-251
leaked_at_negotiation(offset) ==
    DealRecord(evaluation_date, proposal_date, NaT, closed_won_date,
               proposal_date + offset)

\* an if where the code has elif: a deal lost at evaluation still goes on
DoLeakEvalNoElif(u, offset) ==
    /\ pc = "leak_eval"
    /\ trials' = Append(trials, <<"eval", RLt(u, leak.eval)>>)
    /\ IF RLt(u, leak.eval)
       THEN /\ Took(<<"leak_trial", "leak_offset">>)
            /\ closed_lost_date' = discovery_date + offset
            /\ evaluation_date' = NaT
            /\ pc' = "leak_prop"
            /\ UNCHANGED << result, sig, baseline, create_prob, win_prob, deal_id,
                            owner, created_date, base_scale, discovery_date,
                            proposal_date, negotiation_date, leak, closed_won_date >>
       ELSE NotLeaked("leak_prop")
    /\ UNCHANGED company_row

\* lines 240-243 and 265-276: offset is what rng.integers(1, 5) returns if called
DoLeakEval(u, offset) ==
    /\ pc = "leak_eval"
    /\ trials' = Append(trials, <<"eval", RLt(u, leak.eval)>>)
    /\ IF RLt(u, leak.eval)
       THEN /\ Took(<<"leak_trial", "leak_offset">>)
            /\ ReturnDeal(leaked_at_evaluation(offset))
       ELSE NotLeaked("leak_prop")
    /\ UNCHANGED company_row

\* the offset drawn before the trial is decided, so also when it does not fire
DoLeakPropEagerOffset(u, offset) ==
    /\ pc = "leak_prop"
    /\ trials' = Append(trials, <<"prop", RLt(u, leak.prop)>>)
    /\ Took(<<"leak_trial", "leak_offset">>)
    /\ IF RLt(u, leak.prop)
       THEN ReturnDeal(leaked_at_proposal(offset))
       ELSE /\ pc' = "leak_neg"
            /\ UNCHANGED << result, locals >>
    /\ UNCHANGED company_row

\* lines 244-247 and 265-276: offset is what rng.integers(1, 7) returns if called
DoLeakProp(u, offset) ==
    /\ pc = "leak_prop"
    /\ trials' = Append(trials, <<"prop", RLt(u, leak.prop)>>)
    /\ IF RLt(u, leak.prop)
       THEN /\ Took(<<"leak_trial", "leak_offset">>)
            /\ ReturnDeal(leaked_at_proposal(offset))
       ELSE NotLeaked("leak_neg")
    /\ UNCHANGED company_row

\* lines 248-251 and 265-276: offset is what rng.integers(1, 10) returns if called
DoLeakNeg(u, offset) ==
    /\ pc = "leak_neg"
    /\ trials' = Append(trials, <<"neg", RLt(u, leak.neg)>>)
    /\ IF RLt(u, leak.neg)
       THEN /\ Took(<<"leak_trial", "leak_offset">>)
            /\ ReturnDeal(leaked_at_negotiation(offset))
       ELSE NotLeaked("outcome")
    /\ UNCHANGED company_row

\* line 258 without its max(1, ...): the shortened close may take no day at all
won_close_days_unfloored(ln, scale, prev_customer) ==
    LET close_days == stage_days(RMul(ln, scale))
    IN  IF prev_customer THEN PyInt(RMul(R(close_days, 1), Pct(80)))
        ELSE close_days

\* lines 256-258: a prior customer closes faster
won_close_days(ln, scale, prev_customer) ==
    LET close_days == stage_days(RMul(ln, scale))
    IN  IF prev_customer THEN stage_days(RMul(R(close_days, 1), Pct(80)))
        ELSE close_days

\* line 262
lose_days(ln, scale) == stage_days(RMul(ln, scale))

\* lines 252-276: ln is the lognormal draw of the branch taken
DoOutcome(u, ln) ==
    /\ pc = "outcome"
    /\ trials' = Append(trials, <<"win", RLt(u, win_prob)>>)
    /\ Took(<<"outcome_trial", "close_days">>)
    /\ IF RLt(u, win_prob)
       THEN ReturnDeal(DealRecord(evaluation_date, proposal_date, negotiation_date,
                negotiation_date + won_close_days(ln, base_scale, sig.prev_customer),
                closed_lost_date))
       ELSE ReturnDeal(DealRecord(evaluation_date, proposal_date, negotiation_date,
                closed_won_date, negotiation_date + lose_days(ln, base_scale)))
    /\ UNCHANGED company_row

(***************************************************************************)
(* Spec: calls of process_company_deal, each on any company row, with      *)
(* every draw free to return any of its values.                            *)
(***************************************************************************)
Triples(S) == {<<a, b, c>> : a \in S, b \in S, c \in S}

\* the draws of calculate_duration_scales and of the four stage durations:
\* all low, all high, or alternating
StageDraws ==
    LET lo == LogNormalVals[1]
        hi == LogNormalVals[2]
    IN  {<<JitterVals[1], JitterVals[1], JitterVals[1]>>,
         <<JitterVals[2], JitterVals[2], JitterVals[2]>>}
        \X {<<lo, lo, lo, lo>>, <<hi, hi, hi, hi>>, <<lo, hi, lo, hi>>,
            <<hi, lo, hi, lo>>}

Init ==
    /\ pc = "idle"
    /\ company_row = NoRow
    /\ sig = NoSig
    /\ FreshLocals
    /\ result = <<>>
    /\ draws = <<>>
    /\ trials = <<>>
    /\ rng = 0
    /\ seed = 0 /\ companies = <<>> /\ run = 0 /\ idx = 0
    /\ deals_data = <<>> /\ outputs = <<>> /\ consumed = <<>> /\ history = <<>>
    /\ billing = <<>> /\ unified = <<>>

Call ==
    /\ pc \in {"idle", "done", "raised"}
    /\ \E row \in CompanyRows : Begin(row)
    /\ UNCHANGED << rng, mainvars >>

CreateProbability ==
    /\ \E beta \in Vals(BetaVals), jitter \in Vals(JitterVals) :
           DoCreateProbability(beta, jitter)
    /\ UNCHANGED << rng, mainvars >>

WinProbability ==
    /\ \E beta \in Vals(BetaVals), jitter \in Vals(JitterVals) :
           DoWinProbability(beta, jitter)
    /\ UNCHANGED << rng, mainvars >>

CreateTrial ==
    /\ \E u \in Vals(RandomVals) : DoCreateTrial(u)
    /\ UNCHANGED << rng, mainvars >>

GenerateDeal ==
    /\ \E uuid \in Uuids, chosen \in OwnerVals, normal \in Vals(NormalVals) :
           DoGenerateDeal(uuid, chosen, normal)
    /\ UNCHANGED << rng, mainvars >>

StageDates ==
    /\ \E d \in StageDraws : DoStageDates(d[1], d[2])
    /\ UNCHANGED << rng, mainvars >>

LeakageRates ==
    /\ \E b \in Triples(Vals(LeakBetaVals)) : DoLeakageRates(b)
    /\ UNCHANGED << rng, mainvars >>

LeakEval ==
    /\ \E u \in Vals(RandomVals), offset \in integers(1, 5) : DoLeakEval(u, offset)
    /\ UNCHANGED << rng, mainvars >>

LeakProp ==
    /\ \E u \in Vals(RandomVals), offset \in integers(1, 7) : DoLeakProp(u, offset)
    /\ UNCHANGED << rng, mainvars >>

LeakNeg ==
    /\ \E u \in Vals(RandomVals), offset \in integers(1, 10) : DoLeakNeg(u, offset)
    /\ UNCHANGED << rng, mainvars >>

Outcome ==
    /\ \E u \in Vals(RandomVals), ln \in Vals(LogNormalVals) : DoOutcome(u, ln)
    /\ UNCHANGED << rng, mainvars >>

Next ==
    \/ Call
    \/ CreateProbability
    \/ WinProbability
    \/ CreateTrial
    \/ GenerateDeal
    \/ StageDates
    \/ LeakageRates
    \/ LeakEval
    \/ LeakProp
    \/ LeakNeg
    \/ Outcome

Spec == Init /\ [][Next]_vars

(***************************************************************************)
(* SpecSeeded: runs of main() over a company list, the draws coming from   *)
(* a generator that is a function of its seed, followed by the billing     *)
(* step and the unified report.                                            *)
(***************************************************************************)
\* size of the generator's state space
RngMod == 31

\* the generator: a linear congruential step, the state is the output
RngStep(s) == (s * 7 + 5) % RngMod

\* np.random.default_rng(seed)
default_rng(sd) == sd % RngMod

RECURSIVE Skip(_, _)
Skip(s, n) == IF n = 0 THEN s ELSE Skip(RngStep(s), n - 1)

\* the raw output of the k-th next draw
Raw(k) == Skip(rng, k - 1)

Sample(tab, r) == tab[(r % Len(tab)) + 1]

IntSample(low, high, r) == low + (r % Cardinality(integers(low, high)))

\* the generator advances by the draws the step took
Advance == rng' = Skip(rng, Len(draws') - Len(draws))

\* longest company list
MaxCompanies == 2

SeededRows == {row \in CompanyRows : row.account_id \in {"a1", "a2", "a3"}}

RECURSIVE Lists(_, _)
Lists(S, n) ==
    IF n = 0 THEN {<<>>}
    ELSE Lists(S, n - 1) \cup {Append(l, x) : l \in Lists(S, n - 1), x \in S}

Seeds == {RNG_SEED} \cup (0..(RngMod - 1))

Runs == {1, 2}

InitSeeded ==
    /\ pc = "main"
    /\ company_row = NoRow
    /\ sig = NoSig
    /\ FreshLocals
    /\ result = <<>>
    /\ draws = <<>>
    /\ trials = <<>>
    /\ seed \in Seeds
    /\ rng = default_rng(seed)
    /\ companies \in Lists(SeededRows, MaxCompanies)
    /\ run = 1 /\ idx = 0
    /\ deals_data = <<>> /\ outputs = <<>> /\ consumed = <<>>
    /\ history = << <<>> >>
    /\ billing = <<>> /\ unified = <<>>

\* lines 282-283: the loop takes the next row and calls process_company_deal
MainIterate ==
    /\ pc = "main"
    /\ idx < Len(companies)
    /\ idx' = idx + 1
    /\ Begin(companies[idx + 1])
    /\ UNCHANGED << rng, seed, companies, run, deals_data, outputs, consumed, history,
                    billing, unified >>

\* what the loop has seen of the call that just returned
Processed == [account_id |-> company_row.account_id, created |-> trials[1][2], result |-> result]

\* insert(0, deal) where the code has append(deal)
MainCollectPrepend ==
    /\ pc = "done"
    /\ run \in Runs
    /\ deals_data' = IF result # <<>> THEN <<result[1]>> \o deals_data ELSE deals_data
    /\ consumed' = Append(consumed, Len(draws))
    /\ history' = [history EXCEPT ![run] = Append(@, Processed)]
    /\ pc' = "main"
    /\ UNCHANGED << company_row, locals, result, draws, trials, rng, seed, companies,
                    run, idx, outputs, billing, unified >>

\* lines 284-285: a deal is appended, None is skipped
MainCollect ==
    /\ pc = "done"
    /\ run \in Runs
    /\ deals_data' = IF result # <<>> THEN Append(deals_data, result[1]) ELSE deals_data
    /\ consumed' = Append(consumed, Len(draws))
    /\ history' = [history EXCEPT ![run] = Append(@, Processed)]
    /\ pc' = "main"
    /\ UNCHANGED << company_row, locals, result, draws, trials, rng, seed, companies,
                    run, idx, outputs, billing, unified >>

\* lines 288-291: the run writes its deals; the next run starts from the seed
MainFinish ==
    /\ pc = "main"
    /\ idx = Len(companies)
    /\ outputs' = Append(outputs, deals_data)
    /\ IF run + 1 \in Runs
       THEN /\ run' = run + 1
            /\ idx' = 0
            /\ deals_data' = <<>>
            /\ consumed' = <<>>
            /\ history' = Append(history, <<>>)
            /\ rng' = default_rng(seed)
            /\ pc' = "main"
       ELSE /\ pc' = "exit"
            /\ UNCHANGED << run, idx, deals_data, consumed, history, rng >>
    /\ UNCHANGED << company_row, locals, result, draws, trials, seed, companies,
                    billing, unified >>

SeededCreateProbability ==
    /\ DoCreateProbability(Sample(BetaVals, Raw(1)), Sample(JitterVals, Raw(2)))
    /\ Advance
    /\ UNCHANGED mainvars

SeededWinProbability ==
    /\ DoWinProbability(Sample(BetaVals, Raw(1)), Sample(JitterVals, Raw(2)))
    /\ Advance
    /\ UNCHANGED mainvars

SeededCreateTrial ==
    /\ DoCreateTrial(Sample(RandomVals, Raw(1)))
    /\ Advance
    /\ UNCHANGED mainvars

SeededGenerateDeal ==
    /\ \E uuid \in Uuids :
           DoGenerateDeal(uuid, SALES_OWNERS[(Raw(1) % MaxOwners) + 1],
                          Sample(NormalVals, Raw(2)))
    /\ Advance
    /\ UNCHANGED mainvars

SeededStageDates ==
    /\ DoStageDates(<<Sample(JitterVals, Raw(1)), Sample(JitterVals, Raw(2)),
                      Sample(JitterVals, Raw(3))>>,
                    <<Sample(LogNormalVals, Raw(4)), Sample(LogNormalVals, Raw(5)),
                      Sample(LogNormalVals, Raw(6)), Sample(LogNormalVals, Raw(7))>>)
    /\ Advance
    /\ UNCHANGED mainvars

SeededLeakageRates ==
    /\ DoLeakageRates(<<Sample(LeakBetaVals, Raw(1)), Sample(LeakBetaVals, Raw(2)),
                        Sample(LeakBetaVals, Raw(3))>>)
    /\ Advance
    /\ UNCHANGED mainvars

SeededLeakEval ==
    /\ DoLeakEval(Sample(RandomVals, Raw(1)), IntSample(1, 5, Raw(2)))
    /\ Advance
    /\ UNCHANGED mainvars

SeededLeakProp ==
    /\ DoLeakProp(Sample(RandomVals, Raw(1)), IntSample(1, 7, Raw(2)))
    /\ Advance
    /\ UNCHANGED mainvars

SeededLeakNeg ==
    /\ DoLeakNeg(Sample(RandomVals, Raw(1)), IntSample(1, 10, Raw(2)))
    /\ Advance
    /\ UNCHANGED mainvars

SeededOutcome ==
    /\ DoOutcome(Sample(RandomVals, Raw(1)), Sample(LogNormalVals, Raw(2)))
    /\ Advance
    /\ UNCHANGED mainvars

(***************************************************************************)
(* The steps that follow main(): deals.csv is read back by the billing     *)
(* step (03_build_billing.py) and by the unified report                    *)
(* (04_build_unified.py).                                                  *)
(***************************************************************************)
\* a date as a csv cell: NaT is written as an empty cell
DateCell(date) == IF date = NaT THEN <<>> ELSE <<date>>

\* parse_dates: an empty cell is read as NaT
ParseDate(cell) == IF cell = <<>> THEN NaT ELSE cell[1]

to_csv_row(deal) ==
    [ deal_id |-> deal.deal_id, account_id |-> deal.account_id, owner |-> deal.owner,
      created_date |-> DateCell(deal.created_date),
      stage_date_discovery |-> DateCell(deal.stage_date_discovery),
      stage_date_evaluation |-> DateCell(deal.stage_date_evaluation),
      stage_date_proposal |-> DateCell(deal.stage_date_proposal),
      stage_date_negotiation |-> DateCell(deal.stage_date_negotiation),
      stage_date_closed_won |-> DateCell(deal.stage_date_closed_won),
      stage_date_closed_lost |-> DateCell(deal.stage_date_closed_lost) ]

\* pd.DataFrame(deals_data).to_csv: a frame built from no record has no column, so
\* the file has no header
to_csv(frame) ==
    [ header |-> frame # <<>>, rows |-> [k \in 1..Len(frame) |-> to_csv_row(frame[k])] ]

read_csv_row(line) ==
    [ deal_id |-> line.deal_id, account_id |-> line.account_id, owner |-> line.owner,
      created_date |-> ParseDate(line.created_date),
      stage_date_discovery |-> ParseDate(line.stage_date_discovery),
      stage_date_evaluation |-> ParseDate(line.stage_date_evaluation),
      stage_date_proposal |-> ParseDate(line.stage_date_proposal),
      stage_date_negotiation |-> ParseDate(line.stage_date_negotiation),
      stage_date_closed_won |-> ParseDate(line.stage_date_closed_won),
      stage_date_closed_lost |-> ParseDate(line.stage_date_closed_lost) ]

\* pd.read_csv raises on a file without a header
ReadRaises(file) == ~file.header

read_csv(file) == [k \in 1..Len(file.rows) |-> read_csv_row(file.rows[k])]

\* data/raw/deals.csv: what the last run of main() wrote
deals_csv == to_csv(outputs[Len(outputs)])

RECURSIVE Flatten(_)
Flatten(seqs) == IF seqs = <<>> THEN <<>> ELSE Head(seqs) \o Flatten(Tail(seqs))

\* the company rows as they are, the same account_id any number of times
keep_duplicates(rows) == rows

\* drop_duplicates('account_id'): the first row of every account_id
RECURSIVE drop_duplicates(_)
drop_duplicates(rows) ==
    IF rows = <<>> THEN <<>>
    ELSE LET front == drop_duplicates(SubSeq(rows, 1, Len(rows) - 1))
             last == rows[Len(rows)]
         IN  IF \E k \in 1..Len(front) : front[k].account_id = last.account_id
             THEN front
             ELSE Append(front, last)

\* line 80: only closed won deals become billing rows
won_deals(deals) == SelectSeq(deals, LAMBDA d : d.stage_date_closed_won # NaT)

\* line 92: won.merge(acc, on='account_id', how='left'); a row per matching company,
\* one row of nulls when there is none
merge_companies(won, acc) ==
    Flatten([k \in 1..Len(won) |->
        LET m == SelectSeq(acc, LAMBDA c : c.account_id = won[k].account_id)
        IN  IF m = <<>>
            THEN << [deal |-> won[k], employee_band |-> "NaN"] >>
            ELSE [j \in 1..Len(m) |-> [deal |-> won[k], employee_band |-> m[j].employee_band]]])

\* lines 98-131: one billing row per merged row; the billing_id, the amounts and the
\* term dates, which the step takes from uuid4 and from its own generator, are left out
billing_rows(merged) ==
    [k \in 1..Len(merged) |->
        [ deal_id |-> merged[k].deal.deal_id, account_id |-> merged[k].deal.account_id,
          employee_band |-> merged[k].employee_band, term_months |-> 12,
          billing_frequency |-> "annual" ]]

\* 03_build_billing.py, the whole script
BuildBilling ==
    /\ pc = "exit"
    /\ IF ReadRaises(deals_csv)
       THEN /\ pc' = "raised"
            /\ UNCHANGED billing
       ELSE /\ billing' = billing_rows(merge_companies(won_deals(read_csv(deals_csv)),
                                                        drop_duplicates(companies)))
            /\ pc' = "billed"
    /\ UNCHANGED << company_row, locals, result, draws, trials, rng, seed, companies,
                    run, idx, deals_data, outputs, consumed, history, unified >>

\* line 29: companies.merge(deals, on="account_id", how="left"); a null deal_id is "NaN"
merge_deals(comps, deals) ==
    Flatten([k \in 1..Len(comps) |->
        LET m == SelectSeq(deals, LAMBDA d : d.account_id = comps[k].account_id)
        IN  IF m = <<>>
            THEN << [ account_id |-> comps[k].account_id,
                      company_created_date |-> comps[k].created_date,
                      deal_id |-> "NaN", deal_created_date |-> NaT,
                      stage_date_closed_won |-> NaT, stage_date_closed_lost |-> NaT ] >>
            ELSE [j \in 1..Len(m) |->
                    [ account_id |-> comps[k].account_id,
                      company_created_date |-> comps[k].created_date,
                      deal_id |-> m[j].deal_id, deal_created_date |-> m[j].created_date,
                      stage_date_closed_won |-> m[j].stage_date_closed_won,
                      stage_date_closed_lost |-> m[j].stage_date_closed_lost ]]])

\* the test for an opportunity made before the test for a lost deal
outcome_open_first(is_customer, closed_lost, is_opportunity) ==
    IF is_customer THEN "won"
    ELSE IF is_opportunity THEN "open"
    ELSE IF closed_lost # NaT THEN "lost"
    ELSE "no_opp"

\* lines 34-38
outcome(is_customer, closed_lost, is_opportunity) ==
    IF is_customer THEN "won"
    ELSE IF closed_lost # NaT THEN "lost"
    ELSE IF is_opportunity THEN "open"
    ELSE "no_opp"

\* lines 32-38
with_outcome(row) ==
    LET is_opportunity == row.deal_id # "NaN"
        is_customer == row.stage_date_closed_won # NaT
    IN  [ account_id |-> row.account_id,
          company_created_date |-> row.company_created_date,
          deal_id |-> row.deal_id, deal_created_date |-> row.deal_created_date,
          stage_date_closed_won |-> row.stage_date_closed_won,
          stage_date_closed_lost |-> row.stage_date_closed_lost,
          is_opportunity |-> is_opportunity, is_customer |-> is_customer,
          outcome |-> outcome(is_customer, row.stage_date_closed_lost, is_opportunity) ]

\* line 56: the left merge with billing on account_id and deal_id
merge_billing(rows, bill) ==
    Flatten([k \in 1..Len(rows) |->
        LET m == SelectSeq(bill, LAMBDA b : b.account_id = rows[k].account_id
                                             /\ b.deal_id = rows[k].deal_id)
        IN  IF m = <<>>
            THEN << [row |-> rows[k], term_months |-> 0] >>
            ELSE [j \in 1..Len(m) |-> [row |-> rows[k], term_months |-> m[j].term_months]]])

\* lines 81-85: customers first, then opportunities, then by the two creation dates,
\* a null date last
SortsBefore(a, b) ==
    LET ka == << IF a.row.is_customer THEN 0 ELSE 1, IF a.row.is_opportunity THEN 0 ELSE 1,
                 a.row.company_created_date >>
        kb == << IF b.row.is_customer THEN 0 ELSE 1, IF b.row.is_opportunity THEN 0 ELSE 1,
                 b.row.company_created_date >>
        da == a.row.deal_created_date
        db == b.row.deal_created_date
    IN  \/ \E i \in 1..3 : ka[i] < kb[i] /\ \A j \in 1..(i - 1) : ka[j] = kb[j]
        \/ ka = kb /\ da # NaT /\ (db = NaT \/ da < db)

\* sort_values: rows that compare equal keep their order
RECURSIVE sort_values(_)
sort_values(rows) ==
    IF rows = <<>> THEN <<>>
    ELSE LET front == sort_values(SubSeq(rows, 1, Len(rows) - 1))
             last == rows[Len(rows)]
             n == Cardinality({k \in 1..Len(front) : ~SortsBefore(last, front[k])})
         IN  SubSeq(front, 1, n) \o <<last>> \o SubSeq(front, n + 1, Len(front))

\* 04_build_unified.py, the whole script; reading billing.csv raises when the
\* billing step wrote it without a header (no closed won deal)
BuildUnified ==
    /\ pc = "billed"
    /\ IF ReadRaises(deals_csv) \/ billing = <<>>
       THEN /\ pc' = "raised"
            /\ UNCHANGED unified
       ELSE /\ LET joined == merge_deals(companies, read_csv(deals_csv))
                   flagged == [k \in 1..Len(joined) |-> with_outcome(joined[k])]
               IN  unified' = sort_values(merge_billing(flagged, billing))
            /\ pc' = "unified"
    /\ UNCHANGED << company_row, locals, result, draws, trials, rng, seed, companies,
                    run, idx, deals_data, outputs, consumed, history, billing >>

NextSeeded ==
    \/ MainIterate
    \/ MainCollect
    \/ MainFinish
    \/ BuildBilling
    \/ BuildUnified
    \/ SeededCreateProbability
    \/ SeededWinProbability
    \/ SeededCreateTrial
    \/ SeededGenerateDeal
    \/ SeededStageDates
    \/ SeededLeakageRates
    \/ SeededLeakEval
    \/ SeededLeakProp
    \/ SeededLeakNeg
    \/ SeededOutcome

SpecSeeded == InitSeeded /\ [][NextSeeded]_vars

(***************************************************************************)
(* SpecPair: two executions of main() from the same seed, the second over  *)
(* a company list that differs from the first in its first company only.   *)
(***************************************************************************)
\* the lists that agree with l on every company but the first
OtherLists(l) == IF l = <<>> THEN {l} ELSE {[l EXCEPT ![1] = p] : p \in SeededRows}

\* lines 288-291: the execution writes its deals; the other execution reads its
\* own company list (line 50) and starts from the seed
MainFinishThenOther ==
    /\ pc = "main"
    /\ idx = Len(companies)
    /\ outputs' = Append(outputs, deals_data)
    /\ IF run + 1 \in Runs
       THEN /\ run' = run + 1
            /\ idx' = 0
            /\ deals_data' = <<>>
            /\ consumed' = <<>>
            /\ history' = Append(history, <<>>)
            /\ rng' = default_rng(seed)
            /\ companies' \in OtherLists(companies)
            /\ pc' = "main"
       ELSE /\ pc' = "exit"
            /\ UNCHANGED << run, idx, deals_data, consumed, history, rng, companies >>
    /\ UNCHANGED << company_row, locals, result, draws, trials, seed, billing, unified >>

NextPair ==
    \/ MainIterate
    \/ MainCollect
    \/ MainFinishThenOther
    \/ SeededCreateProbability
    \/ SeededWinProbability
    \/ SeededCreateTrial
    \/ SeededGenerateDeal
    \/ SeededStageDates
    \/ SeededLeakageRates
    \/ SeededLeakEval
    \/ SeededLeakProp
    \/ SeededLeakNeg
    \/ SeededOutcome

SpecPair == InitSeeded /\ [][NextPair]_vars

(***************************************************************************)
(* SpecProb: the two probability functions applied to any attributes and   *)
(* any baseline draws.                                                     *)
(***************************************************************************)
ConfidenceVals == {Missing, Zero, R(1, 2), One, NaN}

BandVals == {"2-10", "201-500", "10001+", ""}

\* the baseline draws: the values of the funnel and a middle one of each
ProbBetaVals == Vals(BetaVals) \cup {R(2, 5)}

ProbJitterVals == Vals(JitterVals) \cup {One}

Signals ==
    [ icp : BOOLEAN, icp_confidence : ConfidenceVals, prev_customer : BOOLEAN,
      stack_confidence : ConfidenceVals, band_label : BandVals, has_x12 : BOOLEAN,
      has_fhir : BOOLEAN, has_clearinghouse : BOOLEAN ]

InitProb ==
    /\ pc = "prob"
    /\ company_row = NoRow
    /\ sig \in Signals
    /\ FreshLocals
    /\ result = <<>>
    /\ draws = <<>>
    /\ trials = <<>>
    /\ rng = 0
    /\ seed = 0 /\ companies = <<>> /\ run = 0 /\ idx = 0
    /\ deals_data = <<>> /\ outputs = <<>> /\ consumed = <<>> /\ history = <<>>
    /\ billing = <<>> /\ unified = <<>>

\* calculate_create_probability, lines 82-108
ProbCreate ==
    /\ pc = "prob"
    /\ \E beta \in ProbBetaVals, jitter \in ProbJitterVals :
           /\ baseline' = [baseline EXCEPT !.create = RMul(beta, jitter)]
           /\ create_prob' = calculate_create_probability(beta, jitter, sig.icp,
                                 sig.icp_confidence, sig.prev_customer, sig.has_x12,
                                 sig.has_fhir, sig.has_clearinghouse,
                                 sig.stack_confidence)
    /\ draws' = <<"create_prob", "create_prob">>
    /\ pc' = "prob_create_done"
    /\ UNCHANGED << company_row, sig, win_prob, deal_id, owner, created_date,
                    base_scale, discovery_date, evaluation_date, proposal_date,
                    negotiation_date, leak, closed_won_date, closed_lost_date, result,
                    trials, rng, mainvars >>

\* calculate_win_probability, lines 110-139
ProbWin ==
    /\ pc = "prob"
    /\ \E beta \in ProbBetaVals, jitter \in ProbJitterVals :
           /\ baseline' = [baseline EXCEPT !.win = RMul(beta, jitter)]
           /\ win_prob' = calculate_win_probability(beta, jitter, sig.icp,
                              sig.icp_confidence, sig.prev_customer, sig.has_x12,
                              sig.has_fhir, sig.has_clearinghouse,
                              sig.stack_confidence, sig.band_label)
    /\ draws' = <<"win_prob", "win_prob">>
    /\ pc' = "prob_win_done"
    /\ UNCHANGED << company_row, sig, create_prob, deal_id, owner, created_date,
                    base_scale, discovery_date, evaluation_date, proposal_date,
                    negotiation_date, leak, closed_won_date, closed_lost_date, result,
                    trials, rng, mainvars >>

NextProb ==
    \/ ProbCreate
    \/ ProbWin

SpecProb == InitProb /\ [][NextProb]_vars

(***************************************************************************)
(* Properties.                                                             *)
(***************************************************************************)
IsSet(date) == date # NaT

Returned == result # <<>>

Deal == result[1]

LastTrial == trials[Len(trials)]

\* the four stage dates of the returned deal, in funnel order
StageDates4 ==
    << Deal.stage_date_discovery, Deal.stage_date_evaluation,
       Deal.stage_date_proposal, Deal.stage_date_negotiation >>

\* company creation, deal creation, the four stages, then the two closed dates
Timeline ==
    << company_row.created_date, Deal.created_date >> \o StageDates4

\* C1: every deal record returned has exactly one of stage_date_closed_won and
\* stage_date_closed_lost set, never both and never neither.
C1_ExactlyOneClosed ==
    Returned => (IsSet(Deal.stage_date_closed_won) <=> ~IsSet(Deal.stage_date_closed_lost))

C1_Witness ==
    /\ pc = "done"
    /\ Returned
    /\ IsSet(Deal.stage_date_closed_won)
    /\ ~IsSet(Deal.stage_date_closed_lost)

\* C2: in every deal record returned the dates that are set are ordered: company
\* created_date <= deal created_date <= discovery <= evaluation <= proposal <=
\* negotiation <= the closed date (won or lost).
C2_DatesOrdered ==
    Returned =>
        /\ \A i, j \in 1..Len(Timeline) :
               (i < j /\ IsSet(Timeline[i]) /\ IsSet(Timeline[j]))
                   => Timeline[i] <= Timeline[j]
        /\ \A i \in 1..Len(Timeline), closed \in {Deal.stage_date_closed_won,
                                                  Deal.stage_date_closed_lost} :
               (IsSet(Timeline[i]) /\ IsSet(closed)) => Timeline[i] <= closed

\* a deal created on the company's own creation day that went through every stage
C2_Witness ==
    /\ pc = "done"
    /\ Returned
    /\ Deal.created_date = company_row.created_date
    /\ IsSet(Deal.stage_date_negotiation)
    /\ IsSet(Deal.stage_date_closed_lost)

\* C3: left-truncation: in every deal record returned, an unset stage date is
\* followed only by unset stage dates; a leakage at a checkpoint unsets the date of
\* that stage and of every later stage.
C3_LeftTruncation ==
    Returned =>
        /\ \A i, j \in 1..4 : (i < j /\ ~IsSet(StageDates4[i])) => ~IsSet(StageDates4[j])
        /\ IsSet(StageDates4[1])
        /\ LastTrial = <<"eval", TRUE>> => \A j \in 2..4 : ~IsSet(StageDates4[j])
        /\ LastTrial = <<"prop", TRUE>> => \A j \in 3..4 : ~IsSet(StageDates4[j])
        /\ LastTrial = <<"neg", TRUE>> => ~IsSet(StageDates4[4])

\* a deal lost at the proposal checkpoint
C3_Witness ==
    /\ pc = "done"
    /\ Returned
    /\ LastTrial = <<"prop", TRUE>>
    /\ IsSet(Deal.stage_date_evaluation)
    /\ ~IsSet(Deal.stage_date_proposal)

TrialOrder == << "create", "eval", "prop", "neg", "win" >>

\* C5: the trials are run in the order create, evaluation, proposal, negotiation,
\* won/lost; a trial is run only if no earlier leakage trial fired; the first
\* leakage trial that fires decides where the deal is lost, and the won/lost trial
\* decides the outcome only if none of the three fired.
C5_FirstLeakWins ==
    /\ \A k \in 1..Len(trials) : trials[k][1] = TrialOrder[k]
    /\ \A k \in 1..Len(trials) : (k < Len(trials)) => (trials[k][2] <=> (k = 1))
    /\ Returned =>
        /\ ~IsSet(Deal.stage_date_evaluation)
               <=> trials = <<(<<"create", TRUE>>), <<"eval", TRUE>> >>
        /\ (IsSet(Deal.stage_date_evaluation) /\ ~IsSet(Deal.stage_date_proposal))
               <=> trials = <<(<<"create", TRUE>>), <<"eval", FALSE>>, <<"prop", TRUE>> >>
        /\ (IsSet(Deal.stage_date_proposal) /\ ~IsSet(Deal.stage_date_negotiation))
               <=> trials = <<(<<"create", TRUE>>), <<"eval", FALSE>>, <<"prop", FALSE>>,
                              <<"neg", TRUE>> >>
        /\ IsSet(Deal.stage_date_negotiation)
               <=> (Len(trials) = 5 /\ \A k \in 2..4 : ~trials[k][2])
        /\ IsSet(Deal.stage_date_closed_won) <=> LastTrial = <<"win", TRUE>>

\* a deal lost at the negotiation checkpoint, after two trials that did not fire
C5_Witness ==
    /\ pc = "done"
    /\ Returned
    /\ trials = <<(<<"create", TRUE>>), <<"eval", FALSE>>, <<"prop", FALSE>>,
                  <<"neg", TRUE>> >>
    /\ IsSet(Deal.stage_date_closed_lost)

\* C6: a deal that leaks at the evaluation checkpoint has the evaluation, proposal,
\* negotiation and closed-won dates unset, and its closed-lost date lies strictly
\* between stage_date_discovery and stage_date_discovery + 5 days.
C6_EvaluationLeak ==
    (Returned /\ LastTrial = <<"eval", TRUE>>) =>
        /\ ~IsSet(Deal.stage_date_evaluation)
        /\ ~IsSet(Deal.stage_date_proposal)
        /\ ~IsSet(Deal.stage_date_negotiation)
        /\ ~IsSet(Deal.stage_date_closed_won)
        /\ IsSet(Deal.stage_date_closed_lost)
        /\ Deal.stage_date_discovery < Deal.stage_date_closed_lost
        /\ Deal.stage_date_closed_lost < Deal.stage_date_discovery + 5

\* an evaluation leak with the largest offset rng.integers(1, 5) returns
C6_Witness ==
    /\ pc = "done"
    /\ Returned
    /\ LastTrial = <<"eval", TRUE>>
    /\ Deal.stage_date_closed_lost = Deal.stage_date_discovery + 4

\* the outputs of two finished runs with every deal_id blanked
WithoutDealId(output) ==
    [k \in 1..Len(output) |-> [output[k] EXCEPT !.deal_id = ""]]

\* C4: two runs of main() with the same seed and the same company list produce
\* identical deal output, field for field, deal_id included.
C4_Deterministic ==
    Len(outputs) = 2 => outputs[1] = outputs[2]

\* what the two runs do agree on: every field but deal_id
DeterministicButDealId ==
    Len(outputs) = 2 => WithoutDealId(outputs[1]) = WithoutDealId(outputs[2])

\* a company with no rail signal, no ICP flag, zero stack confidence, not a prior
\* customer
Bare ==
    /\ ~sig.icp
    /\ ~sig.prev_customer
    /\ ~sig.has_x12 /\ ~sig.has_fhir /\ ~sig.has_clearinghouse
    /\ FloatOrZero(sig.stack_confidence) = Zero

\* calculate_create_probability for the same company with has_x12 true, from the
\* same baseline draw and jitter
CreateProbWithX12 ==
    create_probability_of(baseline.create, sig.icp, sig.icp_confidence,
                          sig.prev_customer, TRUE, sig.has_fhir,
                          sig.has_clearinghouse, sig.stack_confidence)

\* C7 as stated: for a bare company calculate_create_probability returns strictly
\* less than for the same company with has_x12 true, for every baseline draw and
\* jitter held equal.
C7_StrictlyLess ==
    (pc = "prob_create_done" /\ Bare) => RLt(create_prob, CreateProbWithX12)

\* C7 amended: the value for the bare company is less than or equal to the value
\* with has_x12 true, and strictly less unless both are clamped to the same end of
\* [0.03, 0.97].
C7_LessUnlessClamped ==
    (pc = "prob_create_done" /\ Bare) =>
        /\ RLe(create_prob, CreateProbWithX12)
        /\ create_prob = CreateProbWithX12 => create_prob \in {Pct(3), Pct(97)}

\* a bare company whose value is strictly below the value with has_x12 true
C7_Witness ==
    /\ pc = "prob_create_done"
    /\ Bare
    /\ RLt(Pct(3), create_prob)
    /\ RLt(create_prob, CreateProbWithX12)

\* C8: for a prior customer, whatever the other attributes and the draws,
\* calculate_create_probability returns at least 0.85 and calculate_win_probability
\* at least 0.70.
C8_PriorCustomerFloors ==
    sig.prev_customer =>
        /\ pc = "prob_create_done" => RGe(create_prob, Pct(85))
        /\ pc = "prob_win_done" => RGe(win_prob, Pct(70))

\* a prior customer whose win probability is lifted to the minimum
C8_Witness ==
    /\ pc = "prob_win_done"
    /\ sig.prev_customer
    /\ win_prob = Pct(70)
    /\ RLt(RMul(baseline.win, Pct(60)), Pct(70))

\* C9: for every input and every draw calculate_create_probability returns a value
\* in [0.03, 0.97] and calculate_win_probability a value in [0.02, 0.98].
C9_WithinClamp ==
    /\ pc = "prob_create_done" => (RLe(Pct(3), create_prob) /\ RLe(create_prob, Pct(97)))
    /\ pc = "prob_win_done" => (RLe(Pct(2), win_prob) /\ RLe(win_prob, Pct(98)))

\* a NaN stack confidence, which the clamp turns into the upper end
C9_Witness ==
    /\ pc = "prob_create_done"
    /\ IsNaN(FloatOrZero(sig.stack_confidence))
    /\ create_prob = Pct(97)

\* C10 as stated: every company of a run takes the same number of draws from the
\* shared stream.
C10_SameDrawsForAll ==
    \A i, j \in DOMAIN consumed : consumed[i] = consumed[j]

\* the draws of a call that has returned, by the branch it took
DrawsOfBranch ==
    IF ~Returned THEN 5
    ELSE CASE LastTrial[1] = "eval" -> 19
           [] LastTrial[1] = "prop" -> 20
           [] LastTrial[1] = "neg" -> 21
           [] LastTrial[1] = "win" -> 22

\* C10 amended: process_company_deal takes a bounded number of draws that depends
\* on the branch: 5 when no deal is created, 19, 20 or 21 when the deal leaks at
\* evaluation, proposal or negotiation, 22 when it reaches the won/lost trial.
C10_DrawsByBranch ==
    /\ pc = "done" => Len(draws) = DrawsOfBranch
    /\ \A i \in DOMAIN consumed : consumed[i] \in {5, 19, 20, 21, 22}

\* a deal that reached the won/lost trial, after a company that got no deal
C10_Witness ==
    /\ pc = "done"
    /\ Returned
    /\ Len(draws) = 22
    /\ consumed = <<5>>

\* the group of a draw, numbered in the order the groups are documented; the create
\* trial and the owner and creation date of the deal lie between the win-probability
\* draws and the duration draws; the closing days are drawn in the won/lost branch
DrawGroup(kind) ==
    CASE kind = "create_prob" -> 1
      [] kind = "win_prob" -> 2
      [] kind \in {"create_trial", "owner", "created_date"} -> 3
      [] kind \in {"duration_scale", "stage_days"} -> 4
      [] kind \in {"leak_rate", "leak_trial", "leak_offset"} -> 5
      [] kind \in {"outcome_trial", "close_days"} -> 6

AccountIds(records) == [k \in 1..Len(records) |-> records[k].account_id]

\* the ids of the first n processed companies whose create trial succeeded, in order
RECURSIVE CreatedIds(_, _)
CreatedIds(h, n) ==
    IF n = 0 THEN <<>>
    ELSE IF h[n].created THEN Append(CreatedIds(h, n - 1), h[n].account_id)
    ELSE CreatedIds(h, n - 1)

\* C12: main() emits at most one deal record per input company, a record exactly
\* when the create trial of that company succeeds, and the records appear in the
\* order of their companies in the input.
C12_OneDealPerCreated ==
    /\ \A r \in DOMAIN history :
           \A i \in DOMAIN history[r] :
               /\ history[r][i].account_id = companies[i].account_id
               /\ history[r][i].created <=> history[r][i].result # <<>>
    /\ run \in DOMAIN history =>
           AccountIds(deals_data) = CreatedIds(history[run], Len(history[run]))
    /\ \A r \in DOMAIN outputs :
           /\ Len(history[r]) = Len(companies)
           /\ AccountIds(outputs[r]) = CreatedIds(history[r], Len(companies))

\* a finished run over two different companies that both got a deal
C12_Witness ==
    /\ Len(outputs) >= 1
    /\ Len(outputs[1]) = 2
    /\ outputs[1][1].account_id # outputs[1][2].account_id
    /\ outputs[1][1].account_id = companies[1].account_id

\* what a call computed for its company, the identifier and the owner of the deal
\* left aside: no deal, or the dates of the deal
OutcomeOf(res) ==
    IF res = <<>> THEN <<>> ELSE << [res[1] EXCEPT !.deal_id = "", !.owner = ""] >>

\* C13: with the seed fixed, the result computed for a company (deal created or not,
\* stage reached, won or lost, dates) is the same whatever the companies that
\* precede it in the input list.
C13_Independent ==
    Len(history) = 2 =>
        \A i \in DOMAIN history[2] :
            history[1][i].account_id = history[2][i].account_id
                => OutcomeOf(history[1][i].result) = OutcomeOf(history[2][i].result)

\* a confidence cell that holds a number
IsNumber(cell) == Len(cell) = 2 /\ cell # NaN

\* the call raised while extracting the attributes, before any draw
RaisedAtExtraction == pc = "raised" /\ draws = <<>>

\* C14: for every optional field (icp, icp_confidence, is_prev_stedi_customer,
\* tech_stack_confidence, employee_band, health_tech) that is absent, null/NaN or
\* malformed, process_company_deal raises no error and uses the conservative
\* default: flag false, confidence 0, rail signals all false, band multiplier 1.0.
C14_ConservativeDefaults ==
    /\ ~RaisedAtExtraction
    /\ pc = "create_prob" =>
           /\ company_row.icp \notin {"True", "False"} => ~sig.icp
           /\ company_row.is_prev_stedi_customer \notin {"True", "False"}
                  => ~sig.prev_customer
           /\ ~IsNumber(company_row.icp_confidence) => sig.icp_confidence = Zero
           /\ ~IsNumber(company_row.tech_stack_confidence) => sig.stack_confidence = Zero
           /\ company_row.health_tech.kind # "str"
                  => (~sig.has_x12 /\ ~sig.has_fhir /\ ~sig.has_clearinghouse)
           /\ company_row.employee_band \notin Bands
                  => /\ get_band_multiplier(sig.band_label, DURATION_BY_BAND) = One
                     /\ get_band_multiplier(sig.band_label, WIN_MULT_BY_BAND) = One

\* the fields the code does default as stated: an absent flag, an absent confidence,
\* an empty or null health_tech, a band that is not in the table
DefaultsWhenAbsent ==
    pc = "create_prob" =>
        /\ company_row.icp = "Missing" => ~sig.icp
        /\ company_row.is_prev_stedi_customer = "Missing" => ~sig.prev_customer
        /\ company_row.icp_confidence = Missing => sig.icp_confidence = Zero
        /\ company_row.tech_stack_confidence = Missing => sig.stack_confidence = Zero
        /\ company_row.health_tech.kind # "str"
               => (~sig.has_x12 /\ ~sig.has_fhir /\ ~sig.has_clearinghouse)
        /\ company_row.employee_band \notin Bands
               => /\ get_band_multiplier(sig.band_label, DURATION_BY_BAND) = One
                  /\ get_band_multiplier(sig.band_label, WIN_MULT_BY_BAND) = One

\* a row that has no account_id: the column is absent or the cell is empty
NoAccountId == company_row.account_id \in {"Missing", "NaN"}

\* C15: processing a company record that has no account_id is fatal: the call ends
\* in an error whatever the draws and never returns normally, neither a deal nor
\* 'no deal'.
C15_MissingIdIsFatal ==
    NoAccountId => pc # "done"

\* what the code does for a row without the account_id column: it raises exactly
\* when the create trial succeeds, after all the draws of the deal are taken
RaisesOnlyWithDeal ==
    (KeyRaises(company_row) /\ pc \in {"done", "raised"}) =>
        /\ pc = "raised" <=> trials[1] = <<"create", TRUE>>
        /\ pc = "raised" => Len(draws) >= 19

LeakTrials == {"eval", "prop", "neg"}

\* C17: a deal has stage_date_closed_won set only if none of the three leakage
\* trials fired; every closed-won deal has all four stage dates set and its
\* closed-won date is at least one day after stage_date_negotiation.
C17_WonOnlyWithoutLeak ==
    (Returned /\ IsSet(Deal.stage_date_closed_won)) =>
        /\ \A name \in LeakTrials : \E k \in 1..Len(trials) : trials[k] = <<name, FALSE>>
        /\ \A k \in 1..Len(trials) : trials[k][1] \in LeakTrials => ~trials[k][2]
        /\ \A i \in 1..4 : IsSet(StageDates4[i])
        /\ Deal.stage_date_closed_won >= Deal.stage_date_negotiation + 1

\* a prior customer whose deal is won the day after negotiation
C17_Witness ==
    /\ pc = "done"
    /\ Returned
    /\ company_row.is_prev_stedi_customer = "True"
    /\ IsSet(Deal.stage_date_closed_won)
    /\ Deal.stage_date_closed_won = Deal.stage_date_negotiation + 1

\* the (account_id, deal_id) pairs of a sequence of rows
KeyPairs(rows) == [k \in 1..Len(rows) |-> <<rows[k].account_id, rows[k].deal_id>>]

\* the deals the billing step has read
DealsRead == outputs[Len(outputs)]

BillingRan == pc \in {"billed", "unified"}

\* C16: the billing step produces exactly one billing row for each deal whose
\* stage_date_closed_won is set and no billing row for any other deal; each billing
\* row carries the (account_id, deal_id) pair of its deal.
C16_BillingPerWonDeal ==
    BillingRan =>
        KeyPairs(billing)
            = KeyPairs(SelectSeq(DealsRead, LAMBDA d : IsSet(d.stage_date_closed_won)))

\* two deals, one of them won and billed, the other lost and not billed
C16_Witness ==
    /\ pc = "billed"
    /\ Len(DealsRead) = 2
    /\ \E k \in 1..2 : ~IsSet(DealsRead[k].stage_date_closed_won)
    /\ Len(billing) = 1
    /\ \E k \in 1..2 : /\ IsSet(DealsRead[k].stage_date_closed_won)
                       /\ billing[1].deal_id = DealsRead[k].deal_id

HasDeal(account_id) == \E j \in 1..Len(DealsRead) : DealsRead[j].account_id = account_id

\* C18: in the unified report the outcome of a company row is 'won' or 'lost'
\* whenever the company has a deal and 'no_opp' whenever it has none; the outcome
\* 'open' is never produced.
C18_NoOpenOutcome ==
    pc = "unified" =>
        /\ \A i \in 1..Len(companies) :
               \E k \in 1..Len(unified) : unified[k].row.account_id = companies[i].account_id
        /\ \A k \in 1..Len(unified) :
               /\ unified[k].row.outcome # "open"
               /\ IF HasDeal(unified[k].row.account_id)
                  THEN unified[k].row.outcome \in {"won", "lost"}
                  ELSE unified[k].row.outcome = "no_opp"

\* a report with a lost deal next to the won one
C18_Witness ==
    /\ pc = "unified"
    /\ \E k \in 1..Len(unified) : unified[k].row.outcome = "lost"
    /\ \E k \in 1..Len(unified) : unified[k].row.outcome = "won"

\* a report with a company that has no deal next to a customer
ReportWithNoOpp ==
    /\ pc = "unified"
    /\ \E k \in 1..Len(unified) : unified[k].row.outcome = "no_opp"

====
